---- MODULE Spec2Model ----
(***************************************************************************)
(* Model of CMUJIN/trading:                                                *)
(*   - detect_trends_v6, main (trend_oi_extreme_signedslope_dirMove_param_v6) *)
(*   - calc_accum_strength, estimate_chipzones                             *)
(*                        (asi_chipzones_plot_filtered_v3.8.2_hybrid)      *)
(*   - ensure_database, clear_database, upload_symbol, main (push_to_notion) *)
(*   - run, main (run_pipeline)                                            *)
(*   - _IsolatedRequestsSession, main, fetch_minute, fetch_minute_chunk,   *)
(*     daterange (cn_futures_downloader)                                   *)
(* Floating point values are modelled as exact rationals <<num, den>> with *)
(* den > 0 in lowest terms; <<0, 0>> is NaN.  Array indices are 0-based as *)
(* in the source; a sequence a holds a[i] of the source at position i + 1. *)
(***************************************************************************)
EXTENDS Integers, Sequences, FiniteSets, TLC

VARIABLES
  \* detect_trends_v6: arguments, segs after the loops, the returned list
  prices, oi, tparams, segs, filtered, tpc,
  \* estimate_chipzones: the columns of df, the arguments, whether the float
  \* quotient of np.arange rounded up, the locals at return, the returned rows
  zclose, zvolume, zopen, zparams, zround, zlocals, zones, zpc,
  \* calc_accum_strength: the columns of df, the arguments, the intermediate
  \* series, the two returned columns
  sclose, svolume, sparams, slocals, long_strength, short_strength, spc,
  \* main of the trend script: the close and open-interest columns of the
  \* file, the command line, the smoothed open interest, the two thresholds
  \* and the segments returned by the detector
  mprices, moi_raw, margs, moi, slope_thresh, move_thresh, msegs, mpc,
  \* push_to_notion, over successive runs: the text of notion_db_id.txt, the
  \* environment of the run, the databases created so far, the live rows of
  \* every database, and the locals of the run in progress
  ncache, nenv_db, nparent, ndbs, nlive, nrun, ndbid, npage, nrest, nnew,
  nleft, npc,
  \* main of run_pipeline: the number of symbols of the configuration,
  \* whether the trend script and its configuration exist, the index of the
  \* item of the loop, what was done for each item so far, the exit status
  psymbols, ptrend_cfg, pitem, plog, pstatus, ppc,
  \* main of the downloader: the number of symbols, the index of sym, the
  \* function bound to requests.api.request, _orig_request of the manager
  \* in use, how each session was closed, the requests made, any_paths
  dsymbols, dsym, api_request, orig_request, dclose, drequests, any_paths,
  dexc, dpc,
  \* fetch_minute: the arguments, whether akshare was imported, whether the
  \* frames it returns have a datetime column, the locals of the loops, the
  \* day_str handed to fetch_minute_chunk so far, the exception raised
  fstart, fend, chunk_days, fak, fhas_dt, cur_start, cur_end, fd, frequested,
  all_frames, fexc, fpc

trendVars == <<prices, oi, tparams, segs, filtered, tpc>>

zoneVars == <<zclose, zvolume, zopen, zparams, zround, zlocals, zones, zpc>>

strengthVars ==
  <<sclose, svolume, sparams, slocals, long_strength, short_strength, spc>>

mainVars ==
  <<mprices, moi_raw, margs, moi, slope_thresh, move_thresh, msegs, mpc>>

notionVars ==
  <<ncache, nenv_db, nparent, ndbs, nlive, nrun, ndbid, npage, nrest, nnew,
    nleft, npc>>

\* the variables of the analysis scripts
coreVars == <<trendVars, zoneVars, strengthVars, mainVars>>

pipelineVars == <<psymbols, ptrend_cfg, pitem, plog, pstatus, ppc>>

sessionVars ==
  <<dsymbols, dsym, api_request, orig_request, dclose, drequests, any_paths,
    dexc, dpc>>

fetchVars ==
  <<fstart, fend, chunk_days, fak, fhas_dt, cur_start, cur_end, fd,
    frequested, all_frames, fexc, fpc>>

\* the variables of the pipeline driver and of the downloader
toolVars == <<pipelineVars, sessionVars, fetchVars>>

vars == <<coreVars, notionVars, toolVars>>

----------------------------------------------------------------------------
(* Bounds of the model *)

\* longest price / open-interest series given to detect_trends_v6
MaxBars == 4

\* longest bar series given to estimate_chipzones
MaxZoneBars == 3

\* longest bar series given to calc_accum_strength
MaxStrengthBars == 3

\* longest file read by main of the trend script
MaxMainBars == 3

\* number of push_to_notion runs
MaxRuns == 3

\* most CSV rows found under ./docs in one run
MaxUploadRows == 2

\* most live rows a database holds
MaxLiveRows == 3

\* rows returned by one databases.query call
QueryPageSize == 2

----------------------------------------------------------------------------
(* Exact rational arithmetic standing for the source's float arithmetic *)

Abs(n) == IF n < 0 THEN -n ELSE n

RECURSIVE GCD(_, _)
GCD(a, b) == IF b = 0 THEN a ELSE GCD(b, a % b)

Norm(n, d) ==
  LET g == GCD(Abs(n), d) IN <<n \div g, d \div g>>

Q(n, d) == Norm(n, d)

RInt(n) == <<n, 1>>

RZero == <<0, 1>>

ROne == <<1, 1>>

RAdd(x, y) ==
  LET g == GCD(x[2], y[2]) IN
    Norm(x[1] * (y[2] \div g) + y[1] * (x[2] \div g), (x[2] \div g) * y[2])

RNeg(x) == <<-x[1], x[2]>>

RSub(x, y) == RAdd(x, RNeg(y))

RMul(x, y) ==
  LET g1 == GCD(Abs(x[1]), y[2])
      g2 == GCD(Abs(y[1]), x[2])
  IN  Norm((x[1] \div g1) * (y[1] \div g2), (x[2] \div g2) * (y[2] \div g1))

\* x / y for y # 0
RDiv(x, y) ==
  IF y[1] > 0 THEN RMul(x, <<y[2], y[1]>>) ELSE RMul(x, <<-y[2], -y[1]>>)

RLt(x, y) == x[1] * y[2] < y[1] * x[2]

RLe(x, y) == x[1] * y[2] <= y[1] * x[2]

RAbs(x) == <<Abs(x[1]), x[2]>>

RMax(x, y) == IF RLt(x, y) THEN y ELSE x

RMin(x, y) == IF RLt(y, x) THEN y ELSE x

----------------------------------------------------------------------------
(* numpy helpers over 0-based slices a[lo .. hi] (both ends included) *)

\* a[lo:hi+1]
Slice(a, lo, hi) == [k \in 1..(hi - lo + 1) |-> a[lo + k]]

RECURSIVE SumSeq(_)
SumSeq(a) == IF a = <<>> THEN RZero ELSE RAdd(Head(a), SumSeq(Tail(a)))

\* np.max / np.min of a non-empty array
RECURSIVE MaxSeq(_)
MaxSeq(a) == IF Len(a) = 1 THEN a[1] ELSE RMax(a[1], MaxSeq(Tail(a)))

RECURSIVE MinSeq(_)
MinSeq(a) == IF Len(a) = 1 THEN a[1] ELSE RMin(a[1], MinSeq(Tail(a)))

\* an argmax that returns the last occurrence of the maximum
ArgMaxLast(a) ==
  CHOOSE k \in 0..(Len(a) - 1) :
    /\ \A j \in 1..Len(a) : RLe(a[j], a[k + 1])
    /\ \A j \in (k + 2)..Len(a) : RLt(a[j], a[k + 1])

\* np.argmax: 0-based offset of the first occurrence of the maximum
ArgMax(a) ==
  CHOOSE k \in 0..(Len(a) - 1) :
    /\ \A j \in 1..Len(a) : RLe(a[j], a[k + 1])
    /\ \A j \in 1..k : RLt(a[j], a[k + 1])

\* np.argmin: 0-based offset of the first occurrence of the minimum
ArgMin(a) ==
  CHOOSE k \in 0..(Len(a) - 1) :
    /\ \A j \in 1..Len(a) : RLe(a[k + 1], a[j])
    /\ \A j \in 1..k : RLt(a[k + 1], a[j])

\* (np.diff(a) > 0).mean() and (np.diff(a) < 0).mean(), for len(a) > 1
UpRatio(a) ==
  Q(Cardinality({k \in 1..(Len(a) - 1) : RLt(a[k], a[k + 1])}), Len(a) - 1)

DownRatio(a) ==
  Q(Cardinality({k \in 1..(Len(a) - 1) : RLt(a[k + 1], a[k])}), Len(a) - 1)

----------------------------------------------------------------------------
(* trend_oi_extreme_signedslope_dirMove_param_v6.py *)

pct(a, b) == IF a # RZero THEN RDiv(RSub(b, a), a) ELSE RZero

sign(x) == IF x[1] > 0 THEN 1 ELSE IF x[1] < 0 THEN -1 ELSE 0

signed_mean_slope(pr) ==
  LET r == [k \in 1..(Len(pr) - 1) |-> RDiv(RSub(pr[k + 1], pr[k]), pr[k])]
  IN  IF Len(r) > 0 THEN RDiv(SumSeq(r), RInt(Len(r))) ELSE RZero

\* a retracement measured from the start of the window instead of its end
RetracementFromStart(pr, dir0) ==
  LET first == pr[1]
  IN  IF dir0 > 0
      THEN LET peak == MaxSeq(pr) IN
             IF RLt(first, peak)
             THEN RDiv(RSub(peak, first), RSub(peak, first)) ELSE RZero
      ELSE LET trough == MinSeq(pr) IN
             IF RLt(trough, first)
             THEN RDiv(RSub(first, trough), RSub(first, trough)) ELSE RZero

\* retracement of the window pr against its direction dir0
Retracement(pr, dir0) ==
  LET first == pr[1]
      last  == pr[Len(pr)]
  IN  IF dir0 > 0
      THEN LET peak == MaxSeq(pr) IN
             IF RLt(first, peak)
             THEN RDiv(RSub(peak, last), RSub(peak, first)) ELSE RZero
      ELSE LET trough == MinSeq(pr) IN
             IF RLt(trough, first)
             THEN RDiv(RSub(last, trough), RSub(first, trough)) ELSE RZero

\* Phase A of one loop iteration (s, e): TRUE iff no `continue` is taken
PhaseA(pr, o, p, s, e) ==
  LET pr0       == Slice(pr, s, e)
      move0     == pct(pr[s + 1], pr[e + 1])
      dir0      == sign(move0)
      slope0    == RAbs(signed_mean_slope(pr0))
      oi0       == Slice(o, s, e)
      oi_delta0 == pct(oi0[1], oi0[Len(oi0)])
      oi_up0    == IF Len(oi0) > 1 THEN UpRatio(oi0) ELSE RZero
  IN  /\ dir0 # 0
      /\ ~ (RLt(slope0, p.min_slope) \/ RLt(RMul(RInt(dir0), move0), p.min_move))
      /\ ~ (RLt(oi_delta0, p.min_oi_delta) \/ RLt(oi_up0, p.min_oi_up))
      /\ ~ RLt(p.alpha, Retracement(pr0, dir0))

\* s_oi = s + int(np.argmin(oi0))
SOi(o, s, e) == s + ArgMin(Slice(o, s, e))

\* e_oi = s + int(np.argmax(oi[s_oi:e+1]))
EOi(o, s, e) == s + ArgMax(Slice(o, SOi(o, s, e), e))

\* a length test that rejects only the windows of a single bar
TooShortOnlyEmpty(s_oi, e_oi, p) == e_oi - s_oi < 1

\* if e_oi - s_oi < min_bars: continue
TooShort(s_oi, e_oi, p) == e_oi - s_oi < p.min_bars

\* Phase B of one loop iteration: the segments appended for (s, e): none or one
PhaseB(pr, o, p, s, e) ==
  LET s_oi == SOi(o, s, e)
      e_oi == EOi(o, s, e)
  IN  IF TooShort(s_oi, e_oi, p) THEN <<>>
      ELSE
        LET pr1   == Slice(pr, s_oi, e_oi)
            move1 == pct(pr[s_oi + 1], pr[e_oi + 1])
            dir1  == sign(move1)
        IN  IF dir1 = 0 THEN <<>>
            ELSE
              LET dir_ratio_now == IF dir1 > 0 THEN UpRatio(pr1) ELSE DownRatio(pr1)
              IN  IF RLt(dir_ratio_now, p.dir_ratio) THEN <<>>
                  ELSE
                    LET slope1    == RAbs(signed_mean_slope(pr1))
                        move1_dir == RMul(RInt(dir1), move1)
                        oi_delta1 == pct(o[s_oi + 1], o[e_oi + 1])
                        oi_up1    == IF e_oi - s_oi >= 1
                                     THEN UpRatio(Slice(o, s_oi, e_oi)) ELSE RZero
                    IN  IF /\ RLe(p.min_move, move1_dir)
                           /\ RLe(p.min_slope, slope1)
                           /\ RLe(p.min_oi_delta, oi_delta1)
                           /\ RLe(p.min_oi_up, oi_up1)
                        THEN << [s |-> s_oi, e |-> e_oi, dir |-> dir1] >>
                        ELSE <<>>

\* body of the two nested loops for one pair (s, e)
Candidate(pr, o, p, s, e) ==
  IF PhaseA(pr, o, p, s, e) THEN PhaseB(pr, o, p, s, e) ELSE <<>>

\* for e in range(from, n): segments appended, in loop order
RECURSIVE InnerLoop(_, _, _, _, _)
InnerLoop(pr, o, p, s, e) ==
  IF e >= Len(pr) THEN <<>>
  ELSE Candidate(pr, o, p, s, e) \o InnerLoop(pr, o, p, s, e + 1)

\* for s in range(from, n - min_bars)
RECURSIVE OuterLoop(_, _, _, _)
OuterLoop(pr, o, p, s) ==
  IF s >= Len(pr) - p.min_bars THEN <<>>
  ELSE InnerLoop(pr, o, p, s, s + p.min_bars) \o OuterLoop(pr, o, p, s + 1)

\* the scan with min_bars read as a number of bars (e - s + 1 >= min_bars)
ScanSegsBarCount(pr, o, p) == OuterLoop(pr, o, [p EXCEPT !.min_bars = @ - 1], 0)

\* segs after the two loops
ScanSegs(pr, o, p) == OuterLoop(pr, o, p, 0)

\* a sort key that puts the shortest of the segments with the same start first
KeyLtShortestFirst(a, b) ==
  \/ a.s < b.s
  \/ a.s = b.s /\ (a.e - a.s) < (b.e - b.s)

\* sort key (x['s'], -(x['e'] - x['s'])), compared as Python compares tuples
KeyLt(a, b) ==
  \/ a.s < b.s
  \/ a.s = b.s /\ -(a.e - a.s) < -(b.e - b.s)

\* sorted(): stable insertion of x into the sorted sequence q
RECURSIVE Insert(_, _)
Insert(q, x) ==
  IF q = <<>> THEN <<x>>
  ELSE IF KeyLt(x, Head(q)) THEN <<x>> \o q
       ELSE <<Head(q)>> \o Insert(Tail(q), x)

RECURSIVE Sorted(_)
Sorted(q) ==
  IF q = <<>> THEN <<>> ELSE Insert(Sorted(SubSeq(q, 1, Len(q) - 1)), q[Len(q)])

\* a test that looks at the end of seg only
HitsEndOnly(k, seg) == k.s <= seg.e /\ seg.e <= k.e

\* the test of line 86 for seg against one kept segment k
Hits(k, seg) == (k.s <= seg.s /\ seg.s <= k.e) \/ (k.s <= seg.e /\ seg.e <= k.e)

\* the filter loop over the sorted candidates q, kept being `filtered` so far
RECURSIVE FilterLoop(_, _)
FilterLoop(q, kept) ==
  IF q = <<>> THEN kept
  ELSE IF \E i \in 1..Len(kept) : Hits(kept[i], Head(q))
       THEN FilterLoop(Tail(q), kept)
       ELSE FilterLoop(Tail(q), Append(kept, Head(q)))

FilterOverlap(q) == FilterLoop(Sorted(q), <<>>)

detect_trends_v6(pr, o, p) == FilterOverlap(ScanSegs(pr, o, p))

----------------------------------------------------------------------------
(* Inputs of the trend detector *)

PriceVals == 1..3

OiVals == 1..2

MinBarsVals == 1..3

\* default thresholds of the command line (lines 94-102)
DefaultThresholds ==
  [alpha |-> Q(382, 1000), min_move |-> Q(1, 100), min_slope |-> Q(15, 10000),
   min_oi_delta |-> Q(1, 100), min_oi_up |-> Q(55, 100), dir_ratio |-> Q(55, 100)]

\* every threshold at its loosest
LooseThresholds ==
  [alpha |-> ROne, min_move |-> RZero, min_slope |-> RZero,
   min_oi_delta |-> RZero, min_oi_up |-> RZero, dir_ratio |-> RZero]

ThresholdSets == {DefaultThresholds, LooseThresholds}

WithMinBars(t, mb) ==
  [alpha |-> t.alpha, min_move |-> t.min_move, min_slope |-> t.min_slope,
   min_oi_delta |-> t.min_oi_delta, min_oi_up |-> t.min_oi_up,
   min_bars |-> mb, dir_ratio |-> t.dir_ratio]

TrendParams == {WithMinBars(t, mb) : t \in ThresholdSets, mb \in MinBarsVals}

ToRat(a) == [k \in 1..Len(a) |-> RInt(a[k])]

TrendIdle ==
  /\ prices = <<>>
  /\ oi = <<>>
  /\ tparams = WithMinBars(DefaultThresholds, 6)
  /\ segs = <<>>
  /\ filtered = <<>>
  /\ tpc = "idle"

InitTrendCall ==
  /\ \E n \in 0..MaxBars :
       /\ prices \in [1..n -> PriceVals]
       /\ oi \in [1..n -> OiVals]
  /\ tparams \in TrendParams
  /\ segs = <<>>
  /\ filtered = <<>>
  /\ tpc = "start"

\* one call of detect_trends_v6(prices, oi, ...)
DetectTrends ==
  /\ tpc = "start"
  /\ segs' = ScanSegs(ToRat(prices), ToRat(oi), tparams)
  /\ filtered' = FilterOverlap(segs')
  /\ tpc' = "returned"
  /\ UNCHANGED <<prices, oi, tparams>>
  /\ UNCHANGED <<zoneVars, strengthVars, mainVars, notionVars, toolVars>>

----------------------------------------------------------------------------
(* asi_chipzones_plot_filtered_v3.8.2_hybrid.py: estimate_chipzones *)

\* 1e-6, the floor of half_life and of bin_w
Eps6 == <<1, 1000000>>

RECURSIVE Pow(_, _)
Pow(x, n) == IF n = 0 THEN ROne ELSE RMul(x, Pow(x, n - 1))

RECURSIVE Pow2(_)
Pow2(n) == IF n = 0 THEN 1 ELSE 2 * Pow2(n - 1)

\* df['open_interest'].diff().clip(lower=0).fillna(0.0), row i (0-based)
DeltaOi(op, i) ==
  IF i = 0 THEN RZero ELSE RMax(RSub(op[i + 1], op[i]), RZero)

\* np.arange(len(df))[::-1] / 24.0, row i
DaysFromEnd(n, i) == Q(n - 1 - i, 24)

\* np.exp(-np.log(2) * days_from_end / max(half_life, 1e-6)): 2 to the power
\* -x, for the arguments whose x is a whole number
Decay(n, i, half_life) ==
  LET x == RDiv(DaysFromEnd(n, i), RMax(half_life, Eps6))
  IN  <<1, Pow2(x[1])>>

\* df['weight'], row i; beta is a whole number here
Weight(vol, op, p, i) ==
  RMul(RMul(vol[i + 1], Pow(RAdd(ROne, DeltaOi(op, i)), p.beta)),
       Decay(Len(vol), i, p.half_life))

\* df['close'].mean()
MeanPrice(cl) == RDiv(SumSeq(cl), RInt(Len(cl)))

\* bin_w = max(mean_price * (bins_pct / 100.0), 1e-6)
BinW(cl, p) == RMax(RMul(MeanPrice(cl), RDiv(p.bins_pct, RInt(100))), Eps6)

\* ceil of a rational
Ceil(x) == IF x[1] % x[2] = 0 THEN x[1] \div x[2] ELSE (x[1] \div x[2]) + 1

\* floor of a rational
Floor(x) == x[1] \div x[2]

\* len(np.arange(start, stop, step)) = ceil((stop - start) / step); when the
\* exact quotient is a whole number the float quotient may round above it
\* (roundUp), which adds one element
ArangeLen(start, stop, step, roundUp) ==
  LET x == RDiv(RSub(stop, start), step)
  IN  IF x[2] = 1 /\ roundUp THEN x[1] + 1 ELSE Ceil(x)

\* price_bins = np.arange(close.min(), close.max() + bin_w, bin_w)
\* the roundings the float quotient of np.arange can take
ArangeRoundings(start, stop, step) ==
  IF RDiv(RSub(stop, start), step)[2] = 1 THEN BOOLEAN ELSE {FALSE}

PriceBins(cl, p, roundUp) ==
  LET w == BinW(cl, p)
      n == ArangeLen(MinSeq(cl), RAdd(MaxSeq(cl), w), w, roundUp)
  IN  [k \in 1..n |-> RAdd(MinSeq(cl), RMul(RInt(k - 1), w))]

\* np.histogram: bin j (1-based) of the edges is [edges[j], edges[j+1]),
\* the last one [edges[j], edges[j+1]]
InBin(v, edges, j) ==
  /\ RLe(edges[j], v)
  /\ IF j = Len(edges) - 1 THEN RLe(v, edges[j + 1]) ELSE RLt(v, edges[j + 1])

\* sum of weight over the rows first..last (0-based) whose close is in bin j
RECURSIVE BinWeight(_, _, _, _, _, _)
BinWeight(cl, wt, edges, j, first, last) ==
  IF first > last THEN RZero
  ELSE RAdd(IF InBin(cl[first + 1], edges, j) THEN wt[first + 1] ELSE RZero,
            BinWeight(cl, wt, edges, j, first + 1, last))

\* np.histogram(sub_df['close'], bins=price_bins, weights=sub_df['weight'])
\* for sub_df = rows first..last: one entry per bin, none for a single edge
Histogram(cl, wt, edges, first, last) ==
  [j \in 1..(Len(edges) - 1) |-> BinWeight(cl, wt, edges, j, first, last)]

\* strength_hist without the test of the maximum
StrengthHistUnscaled(cl, wt, edges, first, last) ==
  Histogram(cl, wt, edges, first, last)

\* strength_hist(sub_df), for a histogram with at least one bin
StrengthHist(cl, wt, edges, first, last) ==
  LET hist == Histogram(cl, wt, edges, first, last)
      m    == MaxSeq(hist)
  IN  IF RLt(RZero, m) THEN [j \in 1..Len(hist) |-> RDiv(hist[j], m)] ELSE hist

\* ascending sort of a sequence of numbers
RECURSIVE InsertNum(_, _)
InsertNum(q, x) ==
  IF q = <<>> THEN <<x>>
  ELSE IF RLt(x, Head(q)) THEN <<x>> \o q
       ELSE <<Head(q)>> \o InsertNum(Tail(q), x)

RECURSIVE SortNum(_)
SortNum(q) ==
  IF q = <<>> THEN <<>> ELSE InsertNum(SortNum(Tail(q)), Head(q))

\* np.quantile(a, q) / Series.quantile(q) of a non-empty array: linear
\* interpolation at position q * (n - 1) of the sorted values
Quantile(a, q) ==
  LET srt  == SortNum(a)
      pos  == RMul(q, RInt(Len(a) - 1))
      lo   == Floor(pos)
      frac == RSub(pos, RInt(lo))
  IN  IF frac = RZero THEN srt[lo + 1]
      ELSE RAdd(srt[lo + 1], RMul(frac, RSub(srt[lo + 2], srt[lo + 1])))

\* h[h > 0]
Positive(h) == SelectSeq(h, LAMBDA x : RLt(RZero, x))

\* thr = np.quantile(rr, quantile) if rr.size else 1.0
Threshold(h, q) ==
  IF Positive(h) # <<>> THEN Quantile(Positive(h), q) ELSE ROne

\* a test that asks for a strength above the threshold
QualifiesAbove(h, thr, i) ==
  IF Positive(h) # <<>> THEN RLt(thr, h[i]) ELSE FALSE

\* rec = h_recent[i] >= thr_recent if rr.size else False (and all_ alike)
Qualifies(h, thr, i) ==
  IF Positive(h) # <<>> THEN RLe(thr, h[i]) ELSE FALSE

\* the dict appended for bin i (1-based) when rec or all_
ZoneRow(edges, h_recent, h_all, rec, all_, i) ==
  [low             |-> edges[i],
   high            |-> edges[i + 1],
   recent_strength |-> h_recent[i],
   all_strength    |-> h_all[i],
   avg_strength    |-> RDiv(RAdd(h_recent[i], h_all[i]), RInt(2)),
   persistent      |-> rec /\ all_,
   zone_type       |-> IF rec /\ all_ THEN "persistent" ELSE "transient"]

\* for i in range(len(lows)): the rows appended from bin i on
RECURSIVE ZoneRows(_, _, _, _, _, _)
ZoneRows(edges, h_recent, h_all, thr_recent, thr_all, i) ==
  IF i > Len(edges) - 1 THEN <<>>
  ELSE LET rec  == Qualifies(h_recent, thr_recent, i)
           all_ == Qualifies(h_all, thr_all, i)
       IN  (IF rec \/ all_
            THEN << ZoneRow(edges, h_recent, h_all, rec, all_, i) >>
            ELSE <<>>)
           \o ZoneRows(edges, h_recent, h_all, thr_recent, thr_all, i + 1)

\* first row (0-based) of df.tail(window_zone)
TailFirst(n, window_zone) == IF window_zone >= n THEN 0 ELSE n - window_zone

\* the locals of estimate_chipzones once both histograms are built
ZoneLocals(cl, vol, op, p, roundUp) ==
  LET n        == Len(cl)
      wt       == [k \in 1..n |-> Weight(vol, op, p, k - 1)]
      edges    == PriceBins(cl, p, roundUp)
      h_recent == StrengthHist(cl, wt, edges, TailFirst(n, p.window_zone), n - 1)
      h_all    == StrengthHist(cl, wt, edges, 0, n - 1)
  IN  [price_bins |-> edges, weight |-> wt,
       h_recent |-> h_recent, h_all |-> h_all,
       thr_recent |-> Threshold(h_recent, p.quantile),
       thr_all |-> Threshold(h_all, p.quantile)]

NoLocals ==
  [price_bins |-> <<>>, weight |-> <<>>, h_recent |-> <<>>, h_all |-> <<>>,
   thr_recent |-> ROne, thr_all |-> ROne]

----------------------------------------------------------------------------
(* Inputs of estimate_chipzones *)

CloseVals == 1..3

VolumeVals == 0..1

OpenInterestVals == 1..2

WindowZoneVals == {1, 4}

\* bins_pct, beta, half_life, quantile: half_life = 1/24 day is one bar
ZoneParamSets ==
  { [bins_pct |-> RInt(50), beta |-> 1, half_life |-> Q(1, 24), quantile |-> Q(4, 5)],
    [bins_pct |-> RInt(25), beta |-> 0, half_life |-> Q(1, 48), quantile |-> Q(1, 2)] }

WithWindowZone(z, wz) ==
  [window_zone |-> wz, bins_pct |-> z.bins_pct, beta |-> z.beta,
   half_life |-> z.half_life, quantile |-> z.quantile]

ZoneParams == {WithWindowZone(z, wz) : z \in ZoneParamSets, wz \in WindowZoneVals}

ZonesIdle ==
  /\ zclose = <<>>
  /\ zvolume = <<>>
  /\ zopen = <<>>
  /\ zparams = WithWindowZone(CHOOSE z \in ZoneParamSets : z.beta = 1, 60)
  /\ zround = FALSE
  /\ zlocals = NoLocals
  /\ zones = <<>>
  /\ zpc = "idle"

\* only the differences of open_interest are read (line 110), so the series
\* start at the same level
InitZonesCall ==
  /\ \E n \in 1..MaxZoneBars :
       /\ zclose \in [1..n -> CloseVals]
       /\ zvolume \in [1..n -> VolumeVals]
       /\ zopen \in {f \in [1..n -> OpenInterestVals] : f[1] = 1}
  /\ zparams \in ZoneParams
  /\ zround = FALSE
  /\ zlocals = NoLocals
  /\ zones = <<>>
  /\ zpc = "start"

\* the roundings np.arange can take on this call
Roundings ==
  LET cl == ToRat(zclose)
      w  == BinW(cl, zparams)
  IN  ArangeRoundings(MinSeq(cl), RAdd(MaxSeq(cl), w), w)

\* estimate_chipzones returns the rows
EstimateChipzones ==
  /\ zpc = "start"
  /\ \E roundUp \in Roundings :
       /\ Len(PriceBins(ToRat(zclose), zparams, roundUp)) >= 2
       /\ zround' = roundUp
       /\ zlocals' = ZoneLocals(ToRat(zclose), ToRat(zvolume), ToRat(zopen),
                                zparams, roundUp)
  /\ zones' = ZoneRows(zlocals'.price_bins, zlocals'.h_recent, zlocals'.h_all,
                       zlocals'.thr_recent, zlocals'.thr_all, 1)
  /\ zpc' = "returned"
  /\ UNCHANGED <<zclose, zvolume, zopen, zparams>>
  /\ UNCHANGED <<trendVars, strengthVars, mainVars, notionVars, toolVars>>

\* price_bins holds a single edge: np.histogram returns an empty histogram and
\* np.max(hist) raises ValueError out of estimate_chipzones
EstimateChipzonesRaises ==
  /\ zpc = "start"
  /\ \E roundUp \in Roundings :
       /\ Len(PriceBins(ToRat(zclose), zparams, roundUp)) < 2
       /\ zround' = roundUp
  /\ zpc' = "raised"
  /\ UNCHANGED <<zclose, zvolume, zopen, zparams, zlocals, zones>>
  /\ UNCHANGED <<trendVars, strengthVars, mainVars, notionVars, toolVars>>

----------------------------------------------------------------------------
(* asi_chipzones_plot_filtered_v3.8.2_hybrid.py: calc_accum_strength *)

\* np.nan, np.inf and -np.inf
NaN == <<0, 0>>

PosInf == <<1, 0>>

NegInf == <<-1, 0>>

IsNaN(x) == x = NaN

IsFinite(x) == x[2] # 0

\* float /: a zero divisor gives nan or an infinity, nan propagates
FDiv(x, y) ==
  IF IsNaN(x) \/ IsNaN(y) THEN NaN
  ELSE IF y = RZero
       THEN IF x = RZero THEN NaN ELSE IF x[1] > 0 THEN PosInf ELSE NegInf
       ELSE RDiv(x, y)

\* float *, nan propagates
FMul(x, y) == IF IsNaN(x) \/ IsNaN(y) THEN NaN ELSE RMul(x, y)

\* .fillna(0.0)
FillNa(x) == IF IsNaN(x) THEN RZero ELSE x

\* .replace([np.inf, -np.inf], np.nan)
ReplaceInf(x) == IF IsFinite(x) THEN x ELSE NaN

\* .replace(0, np.nan)
ReplaceZero(x) == IF x = RZero THEN NaN ELSE x

\* .clip(0, 1) without the bounds
ClipNone(x) == x

\* .clip(0, 1): nan stays nan
Clip01(x) ==
  IF IsNaN(x) THEN NaN
  ELSE IF x = NegInf THEN RZero
  ELSE IF x = PosInf THEN ROne
  ELSE RMin(RMax(x, RZero), ROne)

\* df['close'].pct_change().fillna(0.0), row i (0-based)
Ret(cl, i) ==
  IF i = 0 THEN FillNa(NaN)
  ELSE FillNa(RSub(RDiv(cl[i + 1], cl[i]), ROne))

\* Series.rolling(w): the window ending at row i, or none before row w - 1
HasWindow(w, i) == i + 1 >= w

Window(a, w, i) == Slice(a, i - w + 1, i)

\* df['volume'].rolling(window_strength).mean().replace(0, np.nan), row i
VolRoll(vol, w, i) ==
  IF HasWindow(w, i)
  THEN ReplaceZero(RDiv(SumSeq(Window(vol, w, i)), RInt(w)))
  ELSE NaN

\* (df['volume'] / vol_roll).fillna(0.0), row i
VolNorm(vol, w, i) == FillNa(FDiv(vol[i + 1], VolRoll(vol, w, i)))

\* 1e9 = 1 / 1e-9
InvEps9 == 1000000000

\* num / (den + 1e-9) for 0 <= num <= den: exact for den = 0, where the 1e-9
\* decides; for den > 0 the 1e-9, below the ninth digit, is left out
OverEps(num, den) ==
  IF den = RZero THEN RMul(num, RInt(InvEps9)) ELSE RDiv(num, den)

\* np.sum(np.clip(x, 0, None)) and np.sum(np.abs(x))
SumPos(x) == SumSeq([k \in 1..Len(x) |-> RMax(x[k], RZero)])

SumAbs(x) == SumSeq([k \in 1..Len(x) |-> RAbs(x[k])])

\* the lambda of line 97 and of line 98 (on -x)
LongLambda(x) == OverEps(SumPos(x), SumAbs(x))

ShortLambda(x) ==
  OverEps(SumPos([k \in 1..Len(x) |-> RNeg(x[k])]), SumAbs(x))

\* a rolling apply that takes the bars available when the window is not full
LongRawPartial(ret, w, i) ==
  LongLambda(Slice(ret, IF i - w + 1 < 0 THEN 0 ELSE i - w + 1, i))

\* df['ret'].rolling(window_strength).apply(..., raw=True), row i
LongRaw(ret, w, i) ==
  IF HasWindow(w, i) THEN LongLambda(Window(ret, w, i)) ELSE NaN

ShortRaw(ret, w, i) ==
  IF HasWindow(w, i) THEN ShortLambda(Window(ret, w, i)) ELSE NaN

\* Series.ewm(span=span, adjust=False).mean(): nan until the first value,
\* then y = (1 - a) * y + a * x with a = 2 / (span + 1); a nan input keeps y
RECURSIVE EwmFrom(_, _, _, _)
EwmFrom(x, a, k, prev) ==
  IF k > Len(x) THEN <<>>
  ELSE LET y == IF IsNaN(x[k]) THEN prev
                ELSE IF IsNaN(prev) THEN x[k]
                ELSE RAdd(RMul(RSub(ROne, a), prev), RMul(a, x[k]))
       IN  <<y>> \o EwmFrom(x, a, k + 1, y)

Ewm(x, span) == EwmFrom(x, Q(2, span + 1), 1, NaN)

\* rng = hi - lo, without the test hi > lo
RescaleRangeUnguarded(lo, hi) == RSub(hi, lo)

\* rng = hi - lo if hi > lo else 1.0
RescaleRange(lo, hi) == IF RLt(lo, hi) THEN RSub(hi, lo) ELSE ROne

\* the body of the loop of lines 101-105 for one column
Rescale(col) ==
  LET s   == [k \in 1..Len(col) |-> FillNa(ReplaceInf(col[k]))]
      lo  == Quantile(s, Q(2, 100))
      hi  == Quantile(s, Q(98, 100))
      rng == RescaleRange(lo, hi)
  IN  [k \in 1..Len(s) |-> Clip01(FDiv(RSub(s[k], lo), rng))]

\* the columns of calc_accum_strength before the rescaling loop
StrengthLocals(cl, vol, p) ==
  LET n   == Len(cl)
      w   == p.window_strength
      ret == [k \in 1..n |-> Ret(cl, k - 1)]
      vn  == [k \in 1..n |-> VolNorm(vol, w, k - 1)]
      lr  == [k \in 1..n |-> LongRaw(ret, w, k - 1)]
      sr  == [k \in 1..n |-> ShortRaw(ret, w, k - 1)]
  IN  [ret |-> ret, vol_norm |-> vn, long_raw |-> lr, short_raw |-> sr,
       long_smooth  |-> Ewm([k \in 1..n |-> FMul(lr[k], vn[k])], p.smooth),
       short_smooth |-> Ewm([k \in 1..n |-> FMul(sr[k], vn[k])], p.smooth)]

NoStrengthLocals ==
  [ret |-> <<>>, vol_norm |-> <<>>, long_raw |-> <<>>, short_raw |-> <<>>,
   long_smooth |-> <<>>, short_smooth |-> <<>>]

----------------------------------------------------------------------------
(* Inputs of calc_accum_strength *)

StrengthCloseVals == 1..3

StrengthVolumeVals == 0..2

\* window_strength: 1, 2 and one longer than every series
WindowStrengthVals == {1, 2, 20}

SmoothVals == {3, 7}

StrengthParams ==
  [window_strength : WindowStrengthVals, smooth : SmoothVals]

StrengthIdle ==
  /\ sclose = <<>>
  /\ svolume = <<>>
  /\ sparams = [window_strength |-> 20, smooth |-> 7]
  /\ slocals = NoStrengthLocals
  /\ long_strength = <<>>
  /\ short_strength = <<>>
  /\ spc = "idle"

InitStrengthCall ==
  /\ \E n \in 1..MaxStrengthBars :
       /\ sclose \in [1..n -> StrengthCloseVals]
       /\ svolume \in [1..n -> StrengthVolumeVals]
  /\ sparams \in StrengthParams
  /\ slocals = NoStrengthLocals
  /\ long_strength = <<>>
  /\ short_strength = <<>>
  /\ spc = "start"

\* one call of calc_accum_strength(df, window_strength, smooth)
CalcAccumStrength ==
  /\ spc = "start"
  /\ slocals' = StrengthLocals(ToRat(sclose), ToRat(svolume), sparams)
  /\ long_strength' = Rescale(slocals'.long_smooth)
  /\ short_strength' = Rescale(slocals'.short_smooth)
  /\ spc' = "returned"
  /\ UNCHANGED <<sclose, svolume, sparams>>
  /\ UNCHANGED <<trendVars, zoneVars, mainVars, notionVars, toolVars>>

----------------------------------------------------------------------------
(* trend_oi_extreme_signedslope_dirMove_param_v6.py: main *)

\* defaults of the command line (lines 94-104)
DefaultArgs ==
  [alpha |-> Q(382, 1000), slope_ratio |-> Q(2, 10), move_ratio |-> Q(3, 10),
   slope |-> Q(15, 10000), move |-> Q(1, 100), delta_oi |-> Q(1, 100),
   oi_up |-> Q(55, 100), min_bars |-> 6, dir_ratio |-> Q(55, 100),
   oi_ema_span |-> 5, use_dynamic_vol |-> FALSE]

\* the open interest handed on as read from the file
UnsmoothedOi(raw, args) == raw

\* oi = pd.Series(oi_raw).ewm(span=args.oi_ema_span, adjust=False).mean().values
SmoothedOi(raw, args) == Ewm(raw, args.oi_ema_span)

\* volatility_base = (prices.max() - prices.min()) / prices.min()
VolatilityBase(pr) == RDiv(RSub(MaxSeq(pr), MinSeq(pr)), MinSeq(pr))

\* slope_dyn = volatility_base * args.slope_ratio / n
SlopeDyn(pr, args) ==
  RDiv(RMul(VolatilityBase(pr), args.slope_ratio), RInt(Len(pr)))

\* move_dyn = volatility_base * args.move_ratio
MoveDyn(pr, args) == RMul(VolatilityBase(pr), args.move_ratio)

\* a threshold that takes the larger of the dynamic and the static value
SlopeThreshMax(pr, args) ==
  IF args.use_dynamic_vol THEN RMax(SlopeDyn(pr, args), args.slope) ELSE args.slope

\* slope_thresh = min(slope_dyn, args.slope) if args.use_dynamic_vol else args.slope
SlopeThresh(pr, args) ==
  IF args.use_dynamic_vol THEN RMin(SlopeDyn(pr, args), args.slope) ELSE args.slope

\* a move threshold that takes the larger of the dynamic and the static value
MoveThreshMax(pr, args) ==
  IF args.use_dynamic_vol THEN RMax(MoveDyn(pr, args), args.move) ELSE args.move

\* move_thresh = min(move_dyn, args.move) if args.use_dynamic_vol else args.move
MoveThresh(pr, args) ==
  IF args.use_dynamic_vol THEN RMin(MoveDyn(pr, args), args.move) ELSE args.move

\* the arguments of the call of lines 130-131
DetectorParams(args, move_t, slope_t) ==
  [alpha |-> args.alpha, min_move |-> move_t, min_slope |-> slope_t,
   min_oi_delta |-> args.delta_oi, min_oi_up |-> args.oi_up,
   min_bars |-> args.min_bars, dir_ratio |-> args.dir_ratio]

----------------------------------------------------------------------------
(* Inputs of main *)

\* close prices of a volatile instrument and of a quiet one
VolatilePriceVals == 1..3

QuietPriceVals == {200, 201}

MainOiVals == 1..3

MainMinBarsVals == {1, 2}

OiEmaSpanVals == {1, 5}

MainArgs ==
  {[DefaultArgs EXCEPT !.min_bars = mb, !.oi_ema_span = sp, !.use_dynamic_vol = dyn] :
     mb \in MainMinBarsVals, sp \in OiEmaSpanVals, dyn \in BOOLEAN}

MainIdle ==
  /\ mprices = <<>>
  /\ moi_raw = <<>>
  /\ margs = DefaultArgs
  /\ moi = <<>>
  /\ slope_thresh = DefaultArgs.slope
  /\ move_thresh = DefaultArgs.move
  /\ msegs = <<>>
  /\ mpc = "idle"

\* the file has at least one row: prices.max() of an empty column raises
InitMainCall ==
  /\ \E n \in 1..MaxMainBars :
       /\ mprices \in [1..n -> VolatilePriceVals] \cup [1..n -> QuietPriceVals]
       /\ moi_raw \in [1..n -> MainOiVals]
  /\ margs \in MainArgs
  /\ moi = <<>>
  /\ slope_thresh = margs.slope
  /\ move_thresh = margs.move
  /\ msegs = <<>>
  /\ mpc = "start"

\* main, from the loading of the file to the return of detect_trends_v6
Main ==
  /\ mpc = "start"
  /\ moi' = SmoothedOi(ToRat(moi_raw), margs)
  /\ slope_thresh' = SlopeThresh(ToRat(mprices), margs)
  /\ move_thresh' = MoveThresh(ToRat(mprices), margs)
  /\ msegs' = detect_trends_v6(ToRat(mprices), moi',
                               DetectorParams(margs, move_thresh', slope_thresh'))
  /\ mpc' = "returned"
  /\ UNCHANGED <<mprices, moi_raw, margs>>
  /\ UNCHANGED <<trendVars, zoneVars, strengthVars, notionVars, toolVars>>

----------------------------------------------------------------------------
(* push_to_notion.py *)

\* os.path.exists(cache_file) is false
NoFile == "<no file>"

\* strings of the form 8-4-4-4-12 lowercase hexadecimal digits: a cached id,
\* an id given in the environment, the parent page, and the ids that
\* notion.databases.create returns, in the order of creation
CreatedIds == <<"c1", "c2", "c3", "c4", "c5">>

UuidStrings == {"k1", "e1", "p1"} \cup {CreatedIds[k] : k \in 1..Len(CreatedIds)}

\* re.match of the pattern of line 41; "" and "e32", an id of 32 digits
\* without dashes, do not match
is_valid_uuid(uid) == uid \in UuidStrings

\* the databases a run can work on
DbIds == {"k1", "e1"} \cup {CreatedIds[k] : k \in 1..Len(CreatedIds)}

\* notion_db_id.txt after a creation that does not write it
CacheNotWritten(old, dbid) == old

\* open(cache_file, "w").write(dbid)
CacheAfterCreate(old, dbid) == dbid

Min(a, b) == IF a < b THEN a ELSE b

CacheVals == {NoFile, "", "k1"}

EnvDbVals == {"", "e32", "e1"}

ParentVals == {"", "p1"}

NotionIdle ==
  /\ ncache = NoFile
  /\ nenv_db = ""
  /\ nparent = ""
  /\ ndbs = {}
  /\ nlive = [d \in DbIds |-> 0]
  /\ nrun = 0
  /\ ndbid = ""
  /\ npage = 0
  /\ nrest = 0
  /\ nnew = 0
  /\ nleft = 0
  /\ npc = "idle"

\* the first run: the databases that exist already hold old rows or none
InitNotionRuns ==
  /\ ncache \in CacheVals
  /\ nenv_db \in EnvDbVals
  /\ nparent \in ParentVals
  /\ ndbs = {}
  /\ nlive \in {f \in [DbIds -> {0, MaxLiveRows}] :
                  \A d \in DbIds : d \notin {"k1", "e1"} => f[d] = 0}
  /\ nrun = 1
  /\ ndbid = ""
  /\ npage = 0
  /\ nrest = 0
  /\ nnew = 0
  /\ nleft \in 1..MaxUploadRows
  /\ npc = "start"

\* main raises before ensure_database (lines 259-264)
MainRaises ==
  /\ npc = "start"
  /\ ~ is_valid_uuid(nparent)
  /\ npc' = "raised"
  /\ UNCHANGED <<ncache, nenv_db, nparent, ndbs, nlive, nrun, ndbid, npage,
                 nrest, nnew, nleft>>
  /\ UNCHANGED <<coreVars, toolVars>>

\* the cache file exists and holds a valid id (lines 56-58)
CacheHit == ncache # NoFile /\ is_valid_uuid(ncache)

\* ensure_database returns, and main enters clear_database
EnsureDatabase ==
  /\ npc = "start"
  /\ is_valid_uuid(nparent)
  /\ IF CacheHit
     THEN /\ ndbid' = ncache
          /\ nenv_db' = ncache
          /\ UNCHANGED <<ncache, ndbs>>
     ELSE IF is_valid_uuid(nenv_db)
     THEN /\ ndbid' = nenv_db
          /\ UNCHANGED <<ncache, nenv_db, ndbs>>
     ELSE LET dbid == CreatedIds[Cardinality(ndbs) + 1] IN
          /\ ndbs' = ndbs \cup {dbid}
          /\ ncache' = CacheAfterCreate(ncache, dbid)
          /\ nenv_db' = dbid
          /\ ndbid' = dbid
  /\ nrest' = nlive[ndbid']
  /\ npage' = 0
  /\ nnew' = 0
  /\ npc' = "clear_query"
  /\ UNCHANGED <<nparent, nlive, nrun, nleft>>
  /\ UNCHANGED <<coreVars, toolVars>>

\* notion.databases.create raises: no database, no cache file, main ends
EnsureDatabaseFails ==
  /\ npc = "start"
  /\ is_valid_uuid(nparent)
  /\ ~ CacheHit
  /\ ~ is_valid_uuid(nenv_db)
  /\ npc' = "raised"
  /\ UNCHANGED <<ncache, nenv_db, nparent, ndbs, nlive, nrun, ndbid, npage,
                 nrest, nnew, nleft>>
  /\ UNCHANGED <<coreVars, toolVars>>

\* notion.databases.query returns the next page of old rows (lines 101-102)
ClearQuery ==
  /\ npc = "clear_query"
  /\ npage' = Min(QueryPageSize, nrest)
  /\ nrest' = nrest - npage'
  /\ npc' = "clear_archive"
  /\ UNCHANGED <<ncache, nenv_db, nparent, ndbs, nlive, nrun, ndbid, nnew, nleft>>
  /\ UNCHANGED <<coreVars, toolVars>>

\* notion.databases.query raises: the except of line 110 ends clear_database
ClearQueryFails ==
  /\ npc = "clear_query"
  /\ npc' = "upload"
  /\ UNCHANGED <<ncache, nenv_db, nparent, ndbs, nlive, nrun, ndbid, npage,
                 nrest, nnew, nleft>>
  /\ UNCHANGED <<coreVars, toolVars>>

\* notion.pages.update(page_id, archived=True) for one row of the page
ClearArchive ==
  /\ npc = "clear_archive"
  /\ npage > 0
  /\ npage' = npage - 1
  /\ nlive' = [nlive EXCEPT ![ndbid] = @ - 1]
  /\ UNCHANGED <<ncache, nenv_db, nparent, ndbs, nrun, ndbid, nrest, nnew,
                 nleft, npc>>
  /\ UNCHANGED <<coreVars, toolVars>>

\* notion.pages.update raises: the except of line 110 ends clear_database
ClearArchiveFails ==
  /\ npc = "clear_archive"
  /\ npage > 0
  /\ npc' = "upload"
  /\ UNCHANGED <<ncache, nenv_db, nparent, ndbs, nlive, nrun, ndbid, npage,
                 nrest, nnew, nleft>>
  /\ UNCHANGED <<coreVars, toolVars>>

\* the page is done: has_more decides between the next query and the end
ClearPageDone ==
  /\ npc = "clear_archive"
  /\ npage = 0
  /\ npc' = IF nrest > 0 THEN "clear_query" ELSE "upload"
  /\ UNCHANGED <<ncache, nenv_db, nparent, ndbs, nlive, nrun, ndbid, npage,
                 nrest, nnew, nleft>>
  /\ UNCHANGED <<coreVars, toolVars>>

\* upload_symbol: notion.pages.create for the next CSV row
UploadRow ==
  /\ npc = "upload"
  /\ nleft > 0
  /\ nlive[ndbid] < MaxLiveRows
  /\ nleft' = nleft - 1
  /\ nnew' = nnew + 1
  /\ nlive' = [nlive EXCEPT ![ndbid] = @ + 1]
  /\ UNCHANGED <<ncache, nenv_db, nparent, ndbs, nrun, ndbid, npage, nrest, npc>>
  /\ UNCHANGED <<coreVars, toolVars>>

\* notion.pages.create raises APIResponseError: the row is counted as failed
UploadRowFails ==
  /\ npc = "upload"
  /\ nleft > 0
  /\ nleft' = nleft - 1
  /\ UNCHANGED <<ncache, nenv_db, nparent, ndbs, nlive, nrun, ndbid, npage,
                 nrest, nnew, npc>>
  /\ UNCHANGED <<coreVars, toolVars>>

\* every symbol is uploaded: main turns to the directory page
UploadDone ==
  /\ npc = "upload"
  /\ nleft = 0
  /\ npc' = "directory"
  /\ UNCHANGED <<ncache, nenv_db, nparent, ndbs, nlive, nrun, ndbid, npage,
                 nrest, nnew, nleft>>
  /\ UNCHANGED <<coreVars, toolVars>>

\* lines 281-288: the directory page, which is not a row of the database
UpdateDirectory ==
  /\ npc = "directory"
  /\ npc' \in {"done", "raised"}
  /\ UNCHANGED <<ncache, nenv_db, nparent, ndbs, nlive, nrun, ndbid, npage,
                 nrest, nnew, nleft>>
  /\ UNCHANGED <<coreVars, toolVars>>

\* the next run of the script: a new process with its own environment; the
\* cache file and the databases stay
NextRun ==
  /\ npc \in {"done", "raised"}
  /\ nrun < MaxRuns
  /\ nrun' = nrun + 1
  /\ nenv_db' \in EnvDbVals
  /\ nparent' \in ParentVals
  /\ nleft' \in 1..MaxUploadRows
  /\ ndbid' = ""
  /\ npage' = 0
  /\ nrest' = 0
  /\ nnew' = 0
  /\ npc' = "start"
  /\ UNCHANGED <<ncache, ndbs, nlive>>
  /\ UNCHANGED <<coreVars, toolVars>>

----------------------------------------------------------------------------
(* run_pipeline: run and the loop of main over the symbols *)

\* most symbols in the configuration
MaxSymbols == 3

\* exit statuses of a child process: 0, an uncaught exception (1) and the
\* status the downloader exits with when it saved nothing (3)
ReturnCodes == {0, 1, 3}

NoException == "none"

\* run (lines 9-16): the exception that leaves run for a child that exited
\* with returncode
run(returncode) == IF returncode # 0 THEN "SystemExit" ELSE NoException

\* the classes that an "except Exception" clause catches; SystemExit derives
\* from BaseException and is not among them
ExceptionClasses == {"Exception", "ValueError", "RuntimeError", "OSError"}

PipelineIdle ==
  /\ psymbols = 0
  /\ ptrend_cfg = FALSE
  /\ pitem = 0
  /\ plog = <<>>
  /\ pstatus = 0
  /\ ppc = "idle"

\* main up to the loop (lines 31-46); pitem items have been left so far
InitPipelineRun ==
  /\ psymbols \in 0..MaxSymbols
  /\ ptrend_cfg \in BOOLEAN
  /\ pitem = 0
  /\ plog = <<>>
  /\ pstatus = 0
  /\ ppc = "download"

\* 1) download (lines 49-67): SystemExit is caught, the item is left
Download ==
  /\ ppc = "download"
  /\ pitem < psymbols
  /\ \E returncode \in ReturnCodes :
       IF run(returncode) = "SystemExit"
         THEN /\ plog' = Append(plog, "download_failed")
              /\ pitem' = pitem + 1
              /\ ppc' = "download"
         ELSE /\ ppc' = "analyze"
              /\ UNCHANGED <<plog, pitem>>
  /\ UNCHANGED <<psymbols, ptrend_cfg, pstatus>>
  /\ UNCHANGED <<coreVars, notionVars, sessionVars, fetchVars>>

\* 2) analyze (lines 70-89): without a CSV the item is left; SystemExit is
\* caught, the item is left
Analyze ==
  /\ ppc = "analyze"
  /\ \E csv_in \in BOOLEAN, returncode \in ReturnCodes :
       IF ~ csv_in
         THEN /\ plog' = Append(plog, "no_csv")
              /\ pitem' = pitem + 1
              /\ ppc' = "download"
         ELSE IF run(returncode) = "SystemExit"
           THEN /\ plog' = Append(plog, "analysis_failed")
                /\ pitem' = pitem + 1
                /\ ppc' = "download"
           ELSE /\ ppc' = "trend"
                /\ UNCHANGED <<plog, pitem>>
  /\ UNCHANGED <<psymbols, ptrend_cfg, pstatus>>
  /\ UNCHANGED <<coreVars, notionVars, sessionVars, fetchVars>>

\* 2.5) trend detection and 3) collect (lines 92-154): inside the try the
\* configuration may fail to load and run may raise SystemExit; the handler
\* of line 131 catches Exception only, anything else leaves main
TrendAndCollect ==
  /\ ppc = "trend"
  /\ \E cfg_loads \in BOOLEAN, returncode \in ReturnCodes :
       LET exc == IF ~ ptrend_cfg THEN NoException
                  ELSE IF ~ cfg_loads THEN "ValueError"
                  ELSE run(returncode)
       IN  IF exc = NoException
             THEN /\ plog' = Append(plog, "collected")
                  /\ pitem' = pitem + 1
                  /\ ppc' = "download"
                  /\ UNCHANGED pstatus
             ELSE IF exc \in ExceptionClasses
               THEN /\ plog' = Append(plog, "trend_warned_collected")
                    /\ pitem' = pitem + 1
                    /\ ppc' = "download"
                    /\ UNCHANGED pstatus
               ELSE /\ ppc' = "aborted"
                    /\ pstatus' = returncode
                    /\ UNCHANGED <<plog, pitem>>
  /\ UNCHANGED <<psymbols, ptrend_cfg>>
  /\ UNCHANGED <<coreVars, notionVars, sessionVars, fetchVars>>

\* the loop is exhausted (line 156): "Pipeline complete"
PipelineComplete ==
  /\ ppc = "download"
  /\ pitem = psymbols
  /\ ppc' = "complete"
  /\ UNCHANGED <<psymbols, ptrend_cfg, pitem, plog, pstatus>>
  /\ UNCHANGED <<coreVars, notionVars, sessionVars, fetchVars>>

----------------------------------------------------------------------------
(* cn_futures_downloader: _IsolatedRequestsSession and the loop of main *)

\* most symbols on the command line of the downloader
MaxDownloadSymbols == 3

\* most HTTP requests made while one symbol is fetched
MaxRequests == 2

\* the function that the requests library binds to requests.api.request
LibraryRequest == <<"request">>

\* _session_request of the manager entered for the k-th symbol (lines 56-57):
\* it sends through the session of that manager
SessionRequest(k) == <<"_session_request", k>>

\* _orig_request of a manager that was not entered
Unset == <<"unset">>

\* how session.close() ends (lines 62-67): it returns, it raises an
\* Exception (caught on line 66), or it raises outside Exception
CloseOutcomes == {"closed", "Exception", "KeyboardInterrupt"}

\* the mutant: the function is restored after a close that returned, not in
\* a finally clause
RestoredAfterClose(orig, installed, close) ==
  IF close = "closed" THEN orig ELSE installed

\* __exit__ (lines 68-69): the finally clause binds requests.api.request to
\* _orig_request however close ended
Restored(orig, installed, close) == orig

\* the requests made so far for symbol k
RequestsOf(k) == {i \in 1..Len(drequests) : drequests[i].sym = k}

SessionIdle ==
  /\ dsymbols = 0
  /\ dsym = 0
  /\ api_request = LibraryRequest
  /\ orig_request = Unset
  /\ dclose = <<>>
  /\ drequests = <<>>
  /\ any_paths = <<>>
  /\ dexc = NoException
  /\ dpc = "idle"

\* main up to the loop (lines 226-244): symbols is not empty
InitDownloaderRun ==
  /\ dsymbols \in 1..MaxDownloadSymbols
  /\ dsym = 1
  /\ api_request = LibraryRequest
  /\ orig_request = Unset
  /\ dclose = <<>>
  /\ drequests = <<>>
  /\ any_paths = <<>>
  /\ dexc = NoException
  /\ dpc = "with"

\* the with statement is entered for sym (lines 245-248, __enter__ 40-59)
EnterSession ==
  /\ dpc = "with"
  /\ dsym <= dsymbols
  /\ orig_request' = api_request
  /\ api_request' = SessionRequest(dsym)
  /\ dpc' = "body"
  /\ UNCHANGED <<dsymbols, dsym, dclose, drequests, any_paths, dexc>>
  /\ UNCHANGED <<coreVars, notionVars, pipelineVars, fetchVars>>

\* fetch_daily or fetch_minute has AkShare make a request, which goes through
\* the function bound to requests.api.request (lines 250-256)
Request ==
  /\ dpc = "body"
  /\ Cardinality(RequestsOf(dsym)) < MaxRequests
  /\ drequests' = Append(drequests, [sym |-> dsym, via |-> api_request])
  /\ UNCHANGED <<dsymbols, dsym, api_request, orig_request, dclose,
                 any_paths, dexc, dpc>>
  /\ UNCHANGED <<coreVars, notionVars, pipelineVars, fetchVars>>

\* the body saves the file (lines 269-271)
BodySaves ==
  /\ dpc = "body"
  /\ any_paths' = Append(any_paths, dsym)
  /\ dexc' = NoException
  /\ dpc' = "exit"
  /\ UNCHANGED <<dsymbols, dsym, api_request, orig_request, dclose,
                 drequests>>
  /\ UNCHANGED <<coreVars, notionVars, pipelineVars, fetchVars>>

\* the body raises: an Exception is caught on line 272, SystemExit (of
\* ensure_akshare, line 83) leaves the with statement
BodyRaises ==
  /\ dpc = "body"
  /\ \E exc \in ExceptionClasses \cup {"SystemExit"} :
       dexc' = IF exc \in ExceptionClasses THEN NoException ELSE exc
  /\ dpc' = "exit"
  /\ UNCHANGED <<dsymbols, dsym, api_request, orig_request, dclose,
                 drequests, any_paths>>
  /\ UNCHANGED <<coreVars, notionVars, pipelineVars, fetchVars>>

\* __exit__ (lines 61-70), then the sleep and the next symbol (lines
\* 275-277); __exit__ returns None, so an exception in flight goes on
ExitSession ==
  /\ dpc = "exit"
  /\ \E close \in CloseOutcomes :
       LET leaving == IF close = "KeyboardInterrupt" THEN close ELSE dexc
       IN  /\ api_request' = Restored(orig_request, api_request, close)
           /\ dclose' = Append(dclose, close)
           /\ dexc' = leaving
           /\ IF leaving = NoException
                THEN dsym' = dsym + 1 /\ dpc' = "with"
                ELSE dpc' = "aborted" /\ UNCHANGED dsym
  /\ UNCHANGED <<dsymbols, orig_request, drequests, any_paths>>
  /\ UNCHANGED <<coreVars, notionVars, pipelineVars, fetchVars>>

\* after the loop (lines 279-281)
DownloaderDone ==
  /\ dpc = "with"
  /\ dsym > dsymbols
  /\ dpc' = IF any_paths = <<>> THEN "exit3" ELSE "returned"
  /\ UNCHANGED <<dsymbols, dsym, api_request, orig_request, dclose,
                 drequests, any_paths, dexc>>
  /\ UNCHANGED <<coreVars, notionVars, pipelineVars, fetchVars>>

----------------------------------------------------------------------------
(* cn_futures_downloader: daterange, fetch_minute_chunk, fetch_minute *)
(* A date is the number of days since 2023-12-30; adding a timedelta adds  *)
(* its days.                                                               *)

\* number of dates that start and end are drawn from
MaxDays == 4

\* largest chunk_days
MaxChunkDays == 3

\* d.strftime("%Y-%m-%d") (line 194), as <<year, month, day>>
strftime(date) ==
  IF date <= 1 THEN <<2023, 12, 30 + date>> ELSE <<2024, 1, date - 1>>

\* daterange (lines 165-167), as the sequence of the dates it yields
daterange(start_date, end_date) ==
  [n \in 1..(end_date - start_date + 1) |-> start_date + (n - 1)]

\* what one call of ak.futures_zh_minute_sina does
ApiOutcomes == {"frame", "empty", "raises"}

\* fetch_minute_chunk (lines 169-185): SystemExit of ensure_akshare, the
\* first frame that is not empty, or RuntimeError
fetch_minute_chunk(ak_imported, first, second) ==
  IF ~ ak_imported THEN "SystemExit"
  ELSE IF first = "frame" \/ second = "frame" THEN "frame"
  ELSE "RuntimeError"

\* the two ValueError that leave fetch_minute: line 205, and line 140 of
\* normalize_minute
NoMinuteData == "ValueError: No minute data retrieved"

MissingDatetime == "ValueError: Minute data missing datetime column."

ValueErrors == {NoMinuteData, MissingDatetime}

\* the mutant: the last chunk is not cut at end
CurEndUnclamped(start_of_chunk, days, end_date) == start_of_chunk + days - 1

\* line 192
CurEnd(start_of_chunk, days, end_date) ==
  Min(start_of_chunk + days - 1, end_date)

FetchIdle ==
  /\ fstart = 0
  /\ fend = 0
  /\ chunk_days = 0
  /\ fak = FALSE
  /\ fhas_dt = FALSE
  /\ cur_start = 0
  /\ cur_end = 0
  /\ fd = 0
  /\ frequested = <<>>
  /\ all_frames = <<>>
  /\ fexc = NoException
  /\ fpc = "idle"

\* fetch_minute is called (lines 187-190); cur_end and the position fd in
\* daterange are not read before the loop sets them
InitFetchCall ==
  /\ fstart \in 0..(MaxDays - 1)
  /\ fend \in 0..(MaxDays - 1)
  /\ chunk_days \in 0..MaxChunkDays
  /\ fak \in BOOLEAN
  /\ fhas_dt \in BOOLEAN
  /\ cur_start = fstart
  /\ cur_end = fstart
  /\ fd = 0
  /\ frequested = <<>>
  /\ all_frames = <<>>
  /\ fexc = NoException
  /\ fpc = "while"

\* the while loop starts a chunk (lines 191-193)
ChunkStart ==
  /\ fpc = "while"
  /\ cur_start <= fend
  /\ cur_end' = CurEnd(cur_start, chunk_days, fend)
  /\ fd' = 0
  /\ fpc' = "for"
  /\ UNCHANGED <<fstart, fend, chunk_days, fak, fhas_dt, cur_start,
                 frequested, all_frames, fexc>>
  /\ UNCHANGED <<coreVars, notionVars, pipelineVars, sessionVars>>

\* one day of the chunk (lines 193-201): the frame is kept, an Exception is
\* warned about; SystemExit leaves fetch_minute
FetchDay ==
  /\ fpc = "for"
  /\ fd < Len(daterange(cur_start, cur_end))
  /\ \E first \in ApiOutcomes, second \in ApiOutcomes :
       LET day_str == strftime(daterange(cur_start, cur_end)[fd + 1])
           df == fetch_minute_chunk(fak, first, second)
       IN  IF df = "SystemExit"
             THEN /\ fexc' = "SystemExit"
                  /\ fpc' = "raised"
                  /\ UNCHANGED <<fd, frequested, all_frames>>
             ELSE /\ frequested' = Append(frequested, day_str)
                  /\ all_frames' = IF df = "frame"
                                     THEN Append(all_frames, day_str)
                                     ELSE all_frames
                  /\ fd' = fd + 1
                  /\ UNCHANGED <<fexc, fpc>>
  /\ UNCHANGED <<fstart, fend, chunk_days, fak, fhas_dt, cur_start, cur_end>>
  /\ UNCHANGED <<coreVars, notionVars, pipelineVars, sessionVars>>

\* the chunk is exhausted (line 202)
ChunkDone ==
  /\ fpc = "for"
  /\ fd = Len(daterange(cur_start, cur_end))
  /\ cur_start' = cur_end + 1
  /\ fpc' = "while"
  /\ UNCHANGED <<fstart, fend, chunk_days, fak, fhas_dt, cur_end, fd,
                 frequested, all_frames, fexc>>
  /\ UNCHANGED <<coreVars, notionVars, pipelineVars, sessionVars>>

\* after the loop (lines 204-209): ValueError without a frame; otherwise
\* normalize_minute, which raises ValueError without a datetime column
\* (lines 139-140)
FetchReturn ==
  /\ fpc = "while"
  /\ cur_start > fend
  /\ IF all_frames = <<>>
       THEN fexc' = NoMinuteData /\ fpc' = "raised"
       ELSE IF ~ fhas_dt
         THEN fexc' = MissingDatetime /\ fpc' = "raised"
         ELSE fpc' = "returned" /\ UNCHANGED fexc
  /\ UNCHANGED <<fstart, fend, chunk_days, fak, fhas_dt, cur_start, cur_end,
                 fd, frequested, all_frames>>
  /\ UNCHANGED <<coreVars, notionVars, pipelineVars, sessionVars>>

\* no tool of the pipeline runs
ToolsIdle == PipelineIdle /\ SessionIdle /\ FetchIdle

----------------------------------------------------------------------------
(* Specifications: one per function *)

InitTrend ==
  InitTrendCall /\ ZonesIdle /\ StrengthIdle /\ MainIdle /\ NotionIdle
  /\ ToolsIdle

NextTrend == DetectTrends

SpecTrend == InitTrend /\ [][NextTrend]_vars

InitZones ==
  InitZonesCall /\ TrendIdle /\ StrengthIdle /\ MainIdle /\ NotionIdle
  /\ ToolsIdle

NextZones == EstimateChipzones \/ EstimateChipzonesRaises

SpecZones == InitZones /\ [][NextZones]_vars

InitStrength ==
  InitStrengthCall /\ TrendIdle /\ ZonesIdle /\ MainIdle /\ NotionIdle
  /\ ToolsIdle

NextStrength == CalcAccumStrength

SpecStrength == InitStrength /\ [][NextStrength]_vars

InitMain ==
  InitMainCall /\ TrendIdle /\ ZonesIdle /\ StrengthIdle /\ NotionIdle
  /\ ToolsIdle

NextMain == Main

SpecMain == InitMain /\ [][NextMain]_vars

InitNotion ==
  InitNotionRuns /\ TrendIdle /\ ZonesIdle /\ StrengthIdle /\ MainIdle
  /\ ToolsIdle

NextNotion ==
  \/ MainRaises \/ EnsureDatabase \/ EnsureDatabaseFails
  \/ ClearQuery \/ ClearQueryFails
  \/ ClearArchive \/ ClearArchiveFails \/ ClearPageDone
  \/ UploadRow \/ UploadRowFails \/ UploadDone
  \/ UpdateDirectory \/ NextRun

SpecNotion == InitNotion /\ [][NextNotion]_vars

InitPipeline ==
  InitPipelineRun /\ TrendIdle /\ ZonesIdle /\ StrengthIdle /\ MainIdle
  /\ NotionIdle /\ SessionIdle /\ FetchIdle

NextPipeline == Download \/ Analyze \/ TrendAndCollect \/ PipelineComplete

SpecPipeline == InitPipeline /\ [][NextPipeline]_vars

InitDownloader ==
  InitDownloaderRun /\ TrendIdle /\ ZonesIdle /\ StrengthIdle /\ MainIdle
  /\ NotionIdle /\ PipelineIdle /\ FetchIdle

NextDownloader ==
  \/ EnterSession \/ Request \/ BodySaves \/ BodyRaises
  \/ ExitSession \/ DownloaderDone

SpecDownloader == InitDownloader /\ [][NextDownloader]_vars

InitFetch ==
  InitFetchCall /\ TrendIdle /\ ZonesIdle /\ StrengthIdle /\ MainIdle
  /\ NotionIdle /\ PipelineIdle /\ SessionIdle

NextFetch == ChunkStart \/ FetchDay \/ ChunkDone \/ FetchReturn

SpecFetch == InitFetch /\ [][NextFetch]_vars

\* the interpreter goes on executing fetch_minute while a statement is left
FairSpecFetch == SpecFetch /\ WF_vars(NextFetch)

----------------------------------------------------------------------------
(* Properties of detect_trends_v6 *)

NBars == Len(prices)

Returned == tpc = "returned"

Disjoint(a, b) == a.e < b.s \/ b.e < a.s

ConstantOi == \A i, j \in 1..Len(oi) : oi[i] = oi[j]

\* C1: no two returned segments share an index: for distinct returned
\* segments a and b, a.e < b.s or b.e < a.s.
C1_NonOverlap ==
  Returned =>
    \A i, j \in 1..Len(filtered) : i # j => Disjoint(filtered[i], filtered[j])

\* two segments are returned and the filter dropped a candidate that shares
\* an index with one of them
C1_Witness ==
  /\ Returned
  /\ Len(filtered) >= 2
  /\ Len(segs) > Len(filtered)
  /\ \E i \in 1..Len(segs) : \E j \in 1..Len(filtered) :
       ~ Disjoint(segs[i], filtered[j])

\* C2 as stated: the result is empty whenever N < 2 * min_bars.
C2_EmptyBelowTwiceMinBars ==
  (Returned /\ NBars < 2 * tparams.min_bars) => filtered = <<>>

\* C2 amended: the result is empty whenever N <= min_bars.
C2_EmptyUpToMinBars ==
  (Returned /\ NBars <= tparams.min_bars) => filtered = <<>>

\* a series of exactly min_bars bars, price and open interest rising from the
\* first bar to the last, was scanned with every threshold at 0
C2_Witness ==
  /\ Returned
  /\ NBars >= 2
  /\ NBars = tparams.min_bars
  /\ prices[1] < prices[NBars]
  /\ oi[1] < oi[NBars]
  /\ tparams.min_move = RZero
  /\ filtered = <<>>

\* C3: every returned segment has 0 <= s <= e <= N - 1 and
\* e - s + 1 >= min_bars.
C3_SegmentBounds ==
  Returned =>
    \A i \in 1..Len(filtered) :
      /\ 0 <= filtered[i].s
      /\ filtered[i].s <= filtered[i].e
      /\ filtered[i].e <= NBars - 1
      /\ filtered[i].e - filtered[i].s + 1 >= tparams.min_bars

\* with min_bars >= 2, a segment is returned whose refined window starts
\* after the first bar
C3_Witness ==
  /\ Returned
  /\ tparams.min_bars >= 2
  /\ \E i \in 1..Len(filtered) : filtered[i].s > 0

\* C10: a constant open-interest series gives an empty result, for every
\* parameter set, the ones with min_oi_delta = 0 and min_oi_up = 0 included.
C10_ConstantOiEmpty ==
  (Returned /\ ConstantOi) => filtered = <<>>

\* constant open interest with both OI thresholds at 0, and a pair (s, e)
\* that passes Phase A, so that Phase B decides
C10_Witness ==
  /\ Returned
  /\ ConstantOi
  /\ tparams.min_oi_delta = RZero
  /\ tparams.min_oi_up = RZero
  /\ \E s \in 0..(NBars - 1) : \E e \in (s + tparams.min_bars)..(NBars - 1) :
       PhaseA(ToRat(prices), ToRat(oi), tparams, s, e)
  /\ filtered = <<>>

\* the pairs (s, e) of the two loops that reach Phase B
Surviving ==
  {se \in (0..(NBars - 1)) \X (0..(NBars - 1)) :
     /\ se[1] + tparams.min_bars <= se[2]
     /\ PhaseA(ToRat(prices), ToRat(oi), tparams, se[1], se[2])}

\* C14: for every pair (s, e) that reaches Phase B, s_oi is the index of the
\* OI minimum within [s, e] and e_oi the index of the OI maximum within
\* [s_oi, e]: s_oi <= e_oi <= e and oi[e_oi] = max(oi[s_oi..e]).
C14_OiExtremes ==
  Returned =>
    \A se \in Surviving :
      LET o    == ToRat(oi)
          s_oi == SOi(o, se[1], se[2])
          e_oi == EOi(o, se[1], se[2])
      IN  /\ se[1] <= s_oi /\ s_oi <= se[2]
          /\ o[s_oi + 1] = MinSeq(Slice(o, se[1], se[2]))
          /\ s_oi <= e_oi /\ e_oi <= se[2]
          /\ o[e_oi + 1] = MaxSeq(Slice(o, s_oi, se[2]))

\* the candidates that the filter did not return
Dropped == {i \in 1..Len(segs) : \A j \in 1..Len(filtered) : segs[i] # filtered[j]}

\* C15: every candidate that is not returned shares an index with a returned
\* segment that precedes it in the (start ascending, length descending)
\* order, and the candidate with the smallest start, longest among ties, is
\* returned.
C15_MaximalEarliestLongest ==
  Returned =>
    /\ \A i \in Dropped :
         \E j \in 1..Len(filtered) :
           /\ ~ Disjoint(segs[i], filtered[j])
           /\ \/ filtered[j].s < segs[i].s
              \/ /\ filtered[j].s = segs[i].s
                 /\ filtered[j].e - filtered[j].s > segs[i].e - segs[i].s
    /\ \A i \in 1..Len(segs) :
         (\A k \in 1..Len(segs) :
            \/ segs[i].s < segs[k].s
            \/ segs[i].s = segs[k].s /\ segs[i].e >= segs[k].e)
         => \E j \in 1..Len(filtered) : filtered[j] = segs[i]

\* two candidates start at the same bar with different lengths, and a
\* candidate was dropped
C15_Witness ==
  /\ Returned
  /\ Dropped # {}
  /\ \E i, k \in 1..Len(segs) : segs[i].s = segs[k].s /\ segs[i].e < segs[k].e

----------------------------------------------------------------------------
(* Properties of estimate_chipzones *)

ZBars == Len(zclose)

ZCalled == zpc # "start" /\ zpc # "idle"

ZReturned == zpc = "returned"

FlatClose == \A i, j \in 1..ZBars : zclose[i] = zclose[j]

InUnit(x) == RLe(RZero, x) /\ RLe(x, ROne)

\* df['weight'] is 0 on every row
ZeroWeights ==
  \A i \in 1..ZBars :
    Weight(ToRat(zvolume), ToRat(zopen), zparams, i - 1) = RZero

\* C4: with all close prices equal and volume > 0 the call does not fail,
\* price_bins delimits exactly one bin and exactly one ChipZone is returned.
C4_FlatCloseOneZone ==
  (ZCalled /\ FlatClose /\ \A i \in 1..ZBars : zvolume[i] > 0) =>
    /\ ZReturned
    /\ Len(zlocals.price_bins) = 2
    /\ Len(zones) = 1

\* C7: every returned ChipZone has low < high and its three strengths in
\* [0, 1], and the zones are in strictly ascending order of low.
C7_ZoneInvariants ==
  ZReturned =>
    /\ \A i \in 1..Len(zones) :
         /\ RLt(zones[i].low, zones[i].high)
         /\ InUnit(zones[i].recent_strength)
         /\ InUnit(zones[i].all_strength)
         /\ InUnit(zones[i].avg_strength)
    /\ \A i \in 1..(Len(zones) - 1) : RLt(zones[i].low, zones[i + 1].low)

\* two zones are returned, one of them with an average strength strictly
\* between 0 and 1
C7_Witness ==
  /\ ZReturned
  /\ Len(zones) >= 2
  /\ \E i \in 1..Len(zones) :
       RLt(RZero, zones[i].avg_strength) /\ RLt(zones[i].avg_strength, ROne)

\* C8: when every weight is 0 the call returns an empty zone list rather
\* than failing.
C8_ZeroWeightsEmpty ==
  (ZCalled /\ ZeroWeights) => (ZReturned /\ zones = <<>>)

\* C9: when window_zone >= N no error is raised, h_recent equals h_all bin
\* for bin, thr_recent equals thr_all, and every returned zone has
\* recent_strength = all_strength and persistent = true.
C9_WindowCollapses ==
  (ZCalled /\ zparams.window_zone >= ZBars) =>
    /\ ZReturned
    /\ zlocals.h_recent = zlocals.h_all
    /\ zlocals.thr_recent = zlocals.thr_all
    /\ \A i \in 1..Len(zones) :
         /\ zones[i].recent_strength = zones[i].all_strength
         /\ zones[i].persistent

\* the bins (1-based) of the returned call
Bins == 1..(Len(zlocals.price_bins) - 1)

\* the recent and the all-time criterion of bin i, read off the histograms
\* and thresholds of the call
RecentHolds(i) ==
  /\ \E j \in Bins : zlocals.h_recent[j] # RZero
  /\ RLe(zlocals.thr_recent, zlocals.h_recent[i])

AllTimeHolds(i) ==
  /\ \E j \in Bins : zlocals.h_all[j] # RZero
  /\ RLe(zlocals.thr_all, zlocals.h_all[i])

\* the returned zones whose low edge is that of bin i
ZonesOfBin(i) == {k \in 1..Len(zones) : zones[k].low = zlocals.price_bins[i]}

\* C19: a bin becomes a ChipZone iff the recent or the all-time criterion
\* holds; the zone is persistent iff both hold, its zone_type is the
\* persistent label iff persistent and the transient label otherwise, and
\* avg_strength = (h_recent[i] + h_all[i]) / 2.
C19_ZoneCriteria ==
  ZReturned =>
    /\ \A i \in Bins :
         /\ (ZonesOfBin(i) # {}) <=> (RecentHolds(i) \/ AllTimeHolds(i))
         /\ Cardinality(ZonesOfBin(i)) <= 1
         /\ \A k \in ZonesOfBin(i) :
              /\ zones[k].high = zlocals.price_bins[i + 1]
              /\ zones[k].recent_strength = zlocals.h_recent[i]
              /\ zones[k].all_strength = zlocals.h_all[i]
              /\ zones[k].persistent <=> (RecentHolds(i) /\ AllTimeHolds(i))
              /\ zones[k].zone_type =
                   (IF zones[k].persistent THEN "persistent" ELSE "transient")
              /\ RMul(RInt(2), zones[k].avg_strength) =
                   RAdd(zlocals.h_recent[i], zlocals.h_all[i])
    /\ \A k \in 1..Len(zones) : \E i \in Bins : k \in ZonesOfBin(i)

\* a call that returns a persistent zone and a transient one and leaves a
\* bin with weight out
C19_Witness ==
  /\ ZReturned
  /\ \E k \in 1..Len(zones) : zones[k].persistent
  /\ \E k \in 1..Len(zones) : ~ zones[k].persistent
  /\ \E i \in Bins :
       /\ ZonesOfBin(i) = {}
       /\ RLt(RZero, zlocals.h_all[i])

----------------------------------------------------------------------------
(* Properties of calc_accum_strength *)

SBars == Len(sclose)

SReturned == spc = "returned"

\* every per-bar return is 0
ZeroReturns == \A i \in 1..SBars : Ret(ToRat(sclose), i - 1) = RZero

\* C5: every long_strength[i] and short_strength[i] is a number of [0, 1],
\* never nan or infinite.
C5_StrengthInUnit ==
  SReturned =>
    \A i \in 1..SBars :
      /\ IsFinite(long_strength[i]) /\ InUnit(long_strength[i])
      /\ IsFinite(short_strength[i]) /\ InUnit(short_strength[i])

\* the smoothed long column starts with nan, then holds values below the
\* 2nd and above the 98th percentile, and the output reaches both 0 and 1
C5_Witness ==
  /\ SReturned
  /\ SBars >= 3
  /\ IsNaN(slocals.long_smooth[1])
  /\ \E i, j \in 1..SBars :
       /\ long_strength[i] = RZero
       /\ long_strength[j] = ROne
       /\ IsFinite(slocals.long_smooth[j])
       /\ RLt(Quantile([k \in 1..SBars |-> FillNa(slocals.long_smooth[k])], Q(98, 100)),
              slocals.long_smooth[j])

\* C6: if every per-bar return is 0, long_strength[i] = 0 and
\* short_strength[i] = 0 for every bar i.
C6_ZeroReturnsZeroStrength ==
  (SReturned /\ ZeroReturns) =>
    \A i \in 1..SBars : long_strength[i] = RZero /\ short_strength[i] = RZero

\* a flat close with traded volume and a window that fits in the series, so
\* that the lambdas divide 0 by 0 + 1e-9
C6_Witness ==
  /\ SReturned
  /\ ZeroReturns
  /\ SBars >= 2
  /\ sparams.window_strength <= SBars
  /\ \A i \in 1..SBars : svolume[i] > 0
  /\ slocals.long_raw[SBars] = RZero
  /\ \A i \in 1..SBars : long_strength[i] = RZero /\ short_strength[i] = RZero

\* the bars (0-based) with fewer than window_strength bars up to and
\* including themselves
PartialBars == {i \in 0..(SBars - 1) : i + 1 < sparams.window_strength}

----------------------------------------------------------------------------
(* Properties of main and of the detector as main calls it *)

MBars == Len(mprices)

MReturned == mpc = "returned"

StrictlyIncreasing(a) == \A i \in 1..(Len(a) - 1) : a[i] < a[i + 1]

\* the static thresholds of the command line are in force
StaticThresholds == ~ margs.use_dynamic_vol

\* the parameters main passed to the detector
MParams == DetectorParams(margs, move_thresh, slope_thresh)

\* the whole series passes the move, slope and OI-delta thresholds
WholeSeriesPasses ==
  LET pr == ToRat(mprices) IN
    /\ RLe(move_thresh, pct(pr[1], pr[MBars]))
    /\ RLe(slope_thresh, RAbs(signed_mean_slope(pr)))
    /\ RLe(margs.delta_oi, pct(moi[1], moi[MBars]))

\* the pairs (s, e) of the detector's loops that reach Phase B in main's call
MSurviving ==
  {se \in (0..(MBars - 1)) \X (0..(MBars - 1)) :
     /\ se[1] + margs.min_bars <= se[2]
     /\ PhaseA(ToRat(mprices), moi, MParams, se[1], se[2])}

C16_StaticFloor ==
  (MReturned /\ margs.use_dynamic_vol) =>
    /\ RLe(margs.slope, slope_thresh)
    /\ RLe(margs.move, move_thresh)

\* C16 amended: with use_dynamic_vol set, the thresholds never exceed the
\* static slope and move values, and a dynamic value below the static one is
\* the threshold.
C16_StaticCeiling ==
  (MReturned /\ margs.use_dynamic_vol) =>
    /\ RLe(slope_thresh, margs.slope)
    /\ RLe(move_thresh, margs.move)
    /\ RLt(SlopeDyn(ToRat(mprices), margs), margs.slope) =>
         slope_thresh = SlopeDyn(ToRat(mprices), margs)
    /\ RLt(MoveDyn(ToRat(mprices), margs), margs.move) =>
         move_thresh = MoveDyn(ToRat(mprices), margs)

\* a quiet series that moves: both thresholds are above 0 and below their
\* static values
C16_Witness ==
  /\ MReturned
  /\ margs.use_dynamic_vol
  /\ \E i, j \in 1..MBars : mprices[i] # mprices[j]
  /\ RLt(RZero, slope_thresh) /\ RLt(slope_thresh, margs.slope)
  /\ RLt(RZero, move_thresh) /\ RLt(move_thresh, margs.move)

\* C17: with use_dynamic_vol set each threshold is the smaller of its
\* dynamic and its static value, without it the static value; and every
\* returned segment meets the same two thresholds on its refined window.
C17_Thresholds ==
  MReturned =>
    LET pr  == ToRat(mprices)
        vb  == VolatilityBase(pr)
        sd  == RDiv(RMul(vb, margs.slope_ratio), RInt(MBars))
        md  == RMul(vb, margs.move_ratio)
    IN  /\ margs.use_dynamic_vol =>
             /\ RLe(slope_thresh, sd) /\ RLe(slope_thresh, margs.slope)
             /\ slope_thresh \in {sd, margs.slope}
             /\ RLe(move_thresh, md) /\ RLe(move_thresh, margs.move)
             /\ move_thresh \in {md, margs.move}
        /\ ~ margs.use_dynamic_vol =>
             slope_thresh = margs.slope /\ move_thresh = margs.move
        /\ \A i \in 1..Len(msegs) :
             LET s == msegs[i].s
                 e == msegs[i].e
             IN  /\ RLe(move_thresh, RAbs(pct(pr[s + 1], pr[e + 1])))
                 /\ RLe(slope_thresh, RAbs(signed_mean_slope(Slice(pr, s, e))))
                 /\ \E se \in MSurviving :
                      PhaseB(pr, moi, MParams, se[1], se[2]) = << msegs[i] >>

\* with use_dynamic_vol set, a segment is returned whose move is below the
\* static move value
C17_Witness ==
  /\ MReturned
  /\ margs.use_dynamic_vol
  /\ RLt(move_thresh, margs.move)
  /\ RLt(slope_thresh, margs.slope)
  /\ \E i \in 1..Len(msegs) :
       RLt(RAbs(pct(ToRat(mprices)[msegs[i].s + 1], ToRat(mprices)[msegs[i].e + 1])),
           margs.move)

\* C20: the OI-delta and OI-up tests read the smoothed open interest, and
\* the search for s_oi and e_oi in Phase B reads the raw open interest.
C20_ExtremaOnRawOi ==
  MReturned =>
    /\ moi = Ewm(ToRat(moi_raw), margs.oi_ema_span)
    /\ \A se \in MSurviving :
         /\ SOi(moi, se[1], se[2]) = SOi(ToRat(moi_raw), se[1], se[2])
         /\ EOi(moi, se[1], se[2]) = EOi(ToRat(moi_raw), se[1], se[2])

\* the smoothing factor 2 / (span + 1) of the EMA
OiAlpha == Q(2, margs.oi_ema_span + 1)

\* C20 amended: the detector receives the smoothed open interest only: the
\* OI tests and the search for s_oi and e_oi of lines 59-60 all read it.
C20_ExtremaOnSmoothedOi ==
  MReturned =>
    /\ Len(moi) = MBars
    /\ moi[1] = RInt(moi_raw[1])
    /\ \A k \in 2..MBars :
         moi[k] = RAdd(RMul(RSub(ROne, OiAlpha), moi[k - 1]),
                       RMul(OiAlpha, RInt(moi_raw[k])))
    /\ \A i \in 1..Len(msegs) :
         \E se \in MSurviving :
           /\ moi[msegs[i].s + 1] = MinSeq(Slice(moi, se[1], se[2]))
           /\ msegs[i].s = SOi(moi, se[1], se[2])
           /\ msegs[i].e = EOi(moi, se[1], se[2])

\* a segment is returned that the same search on the raw open interest
\* would not have produced
C20_Witness ==
  /\ MReturned
  /\ margs.oi_ema_span > 1
  /\ \E i \in 1..Len(msegs) :
       \A se \in MSurviving :
         \/ msegs[i].s # SOi(ToRat(moi_raw), se[1], se[2])
         \/ msegs[i].e # EOi(ToRat(moi_raw), se[1], se[2])

----------------------------------------------------------------------------
(* Properties of push_to_notion *)

\* the run has left ensure_database with a database id
Ensured == npc \in {"clear_query", "clear_archive", "upload", "directory", "done"}

\* the rows of the run's database that existed before the run and are not
\* archived
OldRows == npage + nrest

\* C12: at most one database is ever created; ensure_database returns the
\* cached id if it is valid, else the environment's id if valid, and creates
\* a database only otherwise, writing its id to the cache so that every
\* later run returns it.
C12_SingleDatabase ==
  /\ [](Cardinality(ndbs) <= 1)
  /\ [][/\ (EnsureDatabase /\ CacheHit) => ndbid' = ncache /\ ndbs' = ndbs
        /\ (EnsureDatabase /\ ~ CacheHit /\ is_valid_uuid(nenv_db)) =>
             ndbid' = nenv_db /\ ndbs' = ndbs
        /\ (ndbs' # ndbs) =>
             /\ ~ CacheHit /\ ~ is_valid_uuid(nenv_db)
             /\ ndbid' \in ndbs' /\ ncache' = ndbid'
        /\ (ndbs # {} /\ ndbid' # ndbid /\ ndbid' # "") => ndbid' \in ndbs
       ]_vars

\* a later run works on the database that an earlier run created and
\* cached
C12_Witness ==
  /\ nrun >= 2
  /\ Ensured
  /\ ndbs = {"c1"}
  /\ ndbid = "c1"
  /\ ncache = "c1"

\* C13: no new row is created while a row that existed before the run is
\* still un-archived, so that a finished run leaves only its own rows.
C13_ClearBeforeUpload ==
  /\ nnew > 0 => OldRows = 0
  /\ npc = "done" => nlive[ndbid] = nnew

----------------------------------------------------------------------------
(* Properties of run_pipeline *)

\* C21: a step of an item that exits with a non-zero status never ends the
\* run: main does not leave the loop through an exception, and when it
\* prints "Pipeline complete" every symbol of the configuration was handled.
C21_NeverAborts ==
  /\ ppc # "aborted"
  /\ ppc = "complete" => Len(plog) = psymbols

----------------------------------------------------------------------------
(* Properties of the downloader *)

\* the with statement of sym is being executed
InBlock == dpc \in {"body", "exit"}

\* C22: outside the with statement requests.api.request is the function of
\* the library, which is also the function every manager found on entry,
\* however the body and session.close() ended; every request made for a
\* symbol went through the session of that symbol.
C22_RequestRestored ==
  /\ ~ InBlock => api_request = LibraryRequest
  /\ InBlock => orig_request = LibraryRequest
  /\ \A i \in 1..Len(drequests) :
       drequests[i].via = SessionRequest(drequests[i].sym)

\* C22 witness: the close of the first session failed, the second symbol
\* made a request and left its block through SystemExit
C22_Witness ==
  /\ dpc = "aborted"
  /\ dexc = "SystemExit"
  /\ dclose = <<"Exception", "closed">>
  /\ RequestsOf(1) # {}
  /\ RequestsOf(2) # {}

----------------------------------------------------------------------------
(* Properties of fetch_minute *)

\* the day_str of every calendar day of [start, end], ascending
AllDays == [n \in 1..(fend - fstart + 1) |-> strftime(fstart + (n - 1))]

FetchLeft == fpc \in {"returned", "raised"}

\* a is the beginning of b
IsPrefix(a, b) == Len(a) <= Len(b) /\ a = SubSeq(b, 1, Len(a))

\* C23 as stated: with start <= end and chunk_days >= 1, when fetch_minute is
\* left every day of [start, end] was requested once, in ascending order, and
\* ValueError was raised iff no day returned data.
C23_ValueErrorIffNoData ==
  (fstart <= fend /\ chunk_days >= 1 /\ FetchLeft) =>
    /\ frequested = AllDays
    /\ (fexc \in ValueErrors) <=> (all_frames = <<>>)

\* C23, amended: with akshare imported, start <= end and chunk_days >= 1,
\* fetch_minute is left; the days requested are always the first days of
\* [start, end] in ascending order and, at the end, all of them, whatever
\* chunk_days is and whichever days failed; the frames kept are those of the
\* days that returned data; the ValueError of line 205 is raised iff no day
\* returned data, and when some day returned data fetch_minute returns unless
\* the frames have no datetime column, which is the ValueError of
\* normalize_minute.
C23_EachDayOnce ==
  /\ [](fak /\ fstart <= fend /\ chunk_days >= 1 =>
          /\ IsPrefix(frequested, AllDays)
          /\ \A i \in 1..Len(all_frames) :
               \E j \in 1..Len(frequested) : all_frames[i] = frequested[j]
          /\ FetchLeft =>
               /\ frequested = AllDays
               /\ (fexc = NoMinuteData) <=> (all_frames = <<>>)
               /\ (fexc = MissingDatetime) <=> (all_frames # <<>> /\ ~ fhas_dt)
               /\ (fpc = "returned") <=> (all_frames # <<>> /\ fhas_dt))
  /\ (fak /\ fstart <= fend /\ chunk_days >= 1) => <>FetchLeft

\* C23 witness: three days or more fetched in chunks of two days; only the
\* last day returned data, and fetch_minute returned
C23_Witness ==
  /\ fpc = "returned"
  /\ chunk_days = 2
  /\ Len(frequested) >= 3
  /\ all_frames = <<frequested[Len(frequested)]>>

====
